---- MODULE Spec2Model ----
(***************************************************************************)
(* Model of the MQTT v3 server selector (src/src/v3/selector.rs): the      *)
(* Selector builder, the SelectorService readiness and shutdown polls and  *)
(* the per-connection task created by SelectorService::call; and of the    *)
(* handshake negotiation (src/src/v3/handshake.rs): Handshake and           *)
(* HandshakeAck.                                                            *)
(***************************************************************************)
EXTENDS Integers, Sequences, FiniteSets, TLC

\* ---------------------------------------------------------------- bounds
MaxServers == 3
MaxTimeout == 2
MaxTime == MaxTimeout + 1
MaxKeepAlive == 61
MaxIdle == 2
MaxOverrides == 2
U16Max == 65535

Behaviours == {"claim", "decline", "error", "hang"}
PacketTypes == {"Connect", "Publish", "PingReq"}
ReadErrors == {"Decode", "Io"}
PollAnswers == {"ready", "pending", "err"}
ReadResults ==
    {<<"Err", e>> : e \in ReadErrors} \cup {<<"None">>} \cup {<<"Some", p>> : p \in PacketTypes}

VARIABLES
    phase,              \* "building" (Selector), "serving" (SelectorService), "init_failed"
    servers,            \* Selector.servers / SelectorService.servers, in push order
    handshake_timeout,  \* Selector.handshake_timeout / SelectorService.handshake_timeout
    pc,                 \* position of the connection task: "idle", "read", "offered", "done"
    item,               \* the SelectItem carried through the selection loop
    idx,                \* number of servers the loop has taken from servers.iter()
    offers,             \* ids of the servers whose call() was invoked, in order
    results,            \* what each invoked server returned, in order
    pending,            \* ids of the servers whose call() future is in flight
    outcome,            \* output of the connection future
    io,                 \* who holds the transport: "acceptor", "selector", "candidate", "claimed", "closed"
    delay,              \* the Option<Sleep> created by call(): <<>> or <<deadline>>
    now,                \* time elapsed since call()
    frame,              \* what state.next() resolved to, <<"Unread">> before
    done_at,            \* the time at which the connection future resolved, -1 before
    poll,               \* record of the last poll_ready / poll_shutdown call
    returned,           \* the item of the latest Either::Left a server returned, NoItem before
    handshake,          \* the Handshake value: <<>> or <<h>> (consumed by the ack constructors)
    handshake_ack,      \* the HandshakeAck value: <<>> or <<a>>
    hs_hist             \* which constructor built the ack, from which request, and the overrides since

vars == <<phase, servers, handshake_timeout, pc, item, idx, offers, results,
          pending, outcome, io, delay, now, frame, done_at, poll, returned,
          handshake, handshake_ack, hs_hist>>

connVars == <<pc, item, idx, offers, results, pending, outcome, io, delay, now,
              frame, done_at, returned>>

hsVars == <<handshake, handshake_ack, hs_hist>>

\* ------------------------------------------------------------ outcomes
NoOutcome == [kind |-> "none", type |-> "", detail |-> <<>>]
Ok == [kind |-> "Ok", type |-> "", detail |-> <<>>]
Err(e) == [kind |-> "Err", type |-> e[1], detail |-> e[2]]

Disconnected == <<"Disconnected", <<>>>>
Unexpected(ptype) == <<"Protocol", <<"Unexpected", ptype, "MQTT-3.1.0-1: Expected CONNECT packet">>>>
ServerError == <<"ServerError", <<"Cannot handle CONNECT packet">>>>
HandshakeTimeout == <<"HandshakeTimeout", <<>>>>
ServiceError == <<"Service", <<>>>>
MqttErrorFrom(err) == <<"Protocol", <<err>>>>

NoItem == [connect |-> 0, delay |-> <<>>]
NoPoll == [op |-> "none", is_error |-> FALSE, answers |-> <<>>, polled |-> <<>>, result |-> "none"]

NoHist == [op |-> "none", keep_alive |-> 0, overrides |-> <<>>]

ServerIds == [i \in 1..Len(servers) |-> servers[i].id]

\* ---------------------------------------------------------------- Init
Init ==
    /\ phase = "building"
    /\ servers = <<>>
    /\ handshake_timeout = 0
    /\ pc = "idle"
    /\ item = NoItem
    /\ idx = 0
    /\ offers = <<>>
    /\ results = <<>>
    /\ pending = {}
    /\ outcome = NoOutcome
    /\ io = "acceptor"
    /\ delay = <<>>
    /\ now = 0
    /\ frame = <<"Unread">>
    /\ done_at = -1
    /\ poll = NoPoll
    /\ returned = NoItem
    /\ handshake = <<>>
    /\ handshake_ack = <<>>
    /\ hs_hist = NoHist

\* ------------------------------------------------------------- builder
set_handshake_timeout(timeout) ==
    /\ phase = "building"
    /\ handshake_timeout' = timeout
    /\ UNCHANGED <<phase, servers, poll>>
    /\ UNCHANGED connVars
    /\ UNCHANGED hsVars

variant(behav) ==
    /\ phase = "building"
    /\ Len(servers) < MaxServers
    /\ servers' = Append(servers, [id |-> Len(servers) + 1, behav |-> behav])
    /\ UNCHANGED <<phase, handshake_timeout, poll>>
    /\ UNCHANGED connVars
    /\ UNCHANGED hsVars

new_service(failAt) ==
    /\ phase = "building"
    /\ failAt \in 0..Len(servers)
    /\ phase' = IF failAt = 0 THEN "serving" ELSE "init_failed"
    /\ UNCHANGED <<servers, handshake_timeout, poll>>
    /\ UNCHANGED connVars
    /\ UNCHANGED hsVars

\* ------------------------------------------------------ connection task
\* the Sleep is never created
make_delay_none(timeout, t) == <<>>

\* let delay = if self.handshake_timeout > 0 { Some(sleep(..)) } else { None }
make_delay(timeout, t) == IF timeout > 0 THEN <<t + timeout>> ELSE <<>>

Expired(d) == d # <<>> /\ now >= d[1]

\* SelectorService::call up to the first await: the task owns io, state, shared, delay.
call ==
    /\ phase = "serving"
    /\ pc = "idle"
    /\ pc' = "read"
    /\ io' = "selector"
    /\ delay' = make_delay(handshake_timeout, now)
    /\ UNCHANGED <<phase, servers, handshake_timeout, poll>>
    /\ UNCHANGED <<item, idx, offers, results, pending, outcome, now, frame, done_at,
                   returned>>
    /\ UNCHANGED hsVars

\* the task ends but what it held is kept alive instead of dropped
finish_keeps_io(out, holder) ==
    /\ pc' = "done"
    /\ outcome' = out
    /\ io' = io
    /\ pending' = {}
    /\ done_at' = now

\* the task ends: its future resolves to out and everything it still owns is dropped
finish(out, holder) ==
    /\ pc' = "done"
    /\ outcome' = out
    /\ io' = holder
    /\ pending' = {}
    /\ done_at' = now

\* a clean close is not told from a frame: res.unwrap_or_default() in place of ok_or_else
read_packet_default(res) ==
    CASE res[1] = "Err" -> <<"Err", MqttErrorFrom(res[2])>>
      [] res[1] = "None" -> <<"Ok", "Connect">>
      [] OTHER -> <<"Ok", res[2]>>

\* .map_err(MqttError::from).and_then(|res| res.ok_or(Disconnected))?
read_packet(res) ==
    CASE res[1] = "Err" -> <<"Err", MqttErrorFrom(res[2])>>
      [] res[1] = "None" -> <<"Err", Disconnected>>
      [] OTHER -> <<"Ok", res[2]>>

\* every decoded packet is taken for the CONNECT
match_connect_any(packet) == <<"Ok", 0>>

\* match packet { Packet::Connect(connect) => connect, packet => return Err(Unexpected) }
match_connect(packet) ==
    IF packet = "Connect" THEN <<"Ok", 0>> ELSE <<"Err", Unexpected(packet)>>

\* servers.iter().rev() in place of servers.iter()
iter_nth_rev(k) == Len(servers) + 1 - k

\* servers.iter(): the position in servers of the k-th server it yields
iter_nth(k) == k

\* servers.iter().next() after k servers were yielded: the rank of the next one, 0 at the end
iter_next(k) == IF k < Len(servers) THEN k + 1 ELSE 0

\* the server whose call() is awaited
srv == servers[iter_nth(idx)]

\* falling out of the loop returns Ok(())
call_servers_ok(it, k, pend) ==
    LET n == iter_next(k) IN
    IF n # 0
    THEN /\ pc' = "offered"
         /\ idx' = n
         /\ item' = it
         /\ offers' = Append(offers, servers[iter_nth(n)].id)
         /\ pending' = pend \cup {servers[iter_nth(n)].id}
         /\ io' = "candidate"
         /\ UNCHANGED <<outcome, done_at>>
    ELSE /\ finish(Ok, "closed")
         /\ item' = it
         /\ UNCHANGED <<idx, offers>>

\* head of `for srv in servers.iter()`: call the next server with the item, or fall out of the loop
call_servers(it, k, pend) ==
    LET n == iter_next(k) IN
    IF n # 0
    THEN /\ pc' = "offered"
         /\ idx' = n
         /\ item' = it
         /\ offers' = Append(offers, servers[iter_nth(n)].id)
         /\ pending' = pend \cup {servers[iter_nth(n)].id}
         /\ io' = "candidate"
         /\ UNCHANGED <<outcome, done_at>>
    ELSE /\ finish(Err(ServerError), "closed")
         /\ item' = it
         /\ UNCHANGED <<idx, offers>>

\* the continuation of state.next(..).await: lines 208-236
frame_read(res) ==
    /\ pc = "read"
    /\ frame' = res
    /\ LET packet == read_packet(res) IN
       IF packet[1] = "Err"
       THEN /\ finish(Err(packet[2]), "closed")
            /\ UNCHANGED <<item, idx, offers>>
       ELSE LET connect == match_connect(packet[2]) IN
            IF connect[1] = "Err"
            THEN /\ finish(Err(connect[2]), "closed")
                 /\ UNCHANGED <<item, idx, offers>>
            ELSE call_servers([connect |-> connect[2], delay |-> delay], 0, pending)
    /\ UNCHANGED <<phase, servers, handshake_timeout, poll, results, delay, now, returned>>
    /\ UNCHANGED hsVars

\* What the call() of a server can resolve to for an item (server.finish_selector).
candidate_results(s, it) ==
    (IF Expired(it.delay) THEN {<<"Err", HandshakeTimeout>>} ELSE {})
    \cup
    (CASE s.behav = "claim" -> {<<"Right">>}
       [] s.behav = "decline" -> {<<"Left", it>>, <<"Left", [it EXCEPT !.connect = s.id]>>}
       [] s.behav = "error" -> {<<"Err", ServiceError>>}
       [] OTHER -> {})

result_kind(res) ==
    CASE res[1] = "Left" -> "decline"
      [] res[1] = "Right" -> "claim"
      [] OTHER -> "error"

\* a declined item is rebuilt: the request as first parsed and a restarted Sleep
on_result_rebuild(res) ==
    CASE res[1] = "Err" ->
            /\ finish(Err(res[2]), "closed")
            /\ UNCHANGED <<item, idx, offers>>
      [] res[1] = "Right" ->
            /\ finish(Ok, "claimed")
            /\ UNCHANGED <<item, idx, offers>>
      [] OTHER ->
            call_servers([connect |-> 0, delay |-> make_delay(handshake_timeout, now)],
                         idx, pending \ {srv.id})

\* the error of a server is swallowed and the next server is tried
on_result_skip_err(res) ==
    CASE res[1] = "Right" ->
            /\ finish(Ok, "claimed")
            /\ UNCHANGED <<item, idx, offers>>
      [] OTHER ->
            call_servers(IF res[1] = "Left" THEN res[2] ELSE item, idx, pending \ {srv.id})

\* a server that declined is called again
on_result_retry(res) ==
    CASE res[1] = "Err" ->
            /\ finish(Err(res[2]), "closed")
            /\ UNCHANGED <<item, idx, offers>>
      [] res[1] = "Right" ->
            /\ finish(Ok, "claimed")
            /\ UNCHANGED <<item, idx, offers>>
      [] OTHER ->
            call_servers(res[2], idx - 1, pending \ {srv.id})

\* the deadline is looked at once more after a server has claimed the connection
on_result_recheck(res) ==
    CASE res[1] = "Err" ->
            /\ finish(Err(res[2]), "closed")
            /\ UNCHANGED <<item, idx, offers>>
      [] res[1] = "Right" ->
            /\ IF Expired(item.delay)
               THEN finish(Err(HandshakeTimeout), "closed")
               ELSE finish(Ok, "claimed")
            /\ UNCHANGED <<item, idx, offers>>
      [] OTHER ->
            call_servers(res[2], idx, pending \ {srv.id})

\* the arms of the match are swapped: a decline returns Ok(())
on_result_swapped(res) ==
    CASE res[1] = "Err" ->
            /\ finish(Err(res[2]), "closed")
            /\ UNCHANGED <<item, idx, offers>>
      [] res[1] = "Left" ->
            /\ finish(Ok, "claimed")
            /\ UNCHANGED <<item, idx, offers>>
      [] OTHER ->
            call_servers(item, idx, pending \ {srv.id})

\* Either::Right(_) does not leave the loop: the next server is called with the old item
on_result_no_return(res) ==
    CASE res[1] = "Err" ->
            /\ finish(Err(res[2]), "closed")
            /\ UNCHANGED <<item, idx, offers>>
      [] OTHER ->
            call_servers(IF res[1] = "Left" THEN res[2] ELSE item, idx, pending \ {srv.id})

\* match srv.call(item).await? { Left(result) => item = result, Right(_) => return Ok(()) }
on_result(res) ==
    CASE res[1] = "Err" ->
            /\ finish(Err(res[2]), "closed")
            /\ UNCHANGED <<item, idx, offers>>
      [] res[1] = "Right" ->
            /\ finish(Ok, "claimed")
            /\ UNCHANGED <<item, idx, offers>>
      [] OTHER ->
            call_servers(res[2], idx, pending \ {srv.id})

\* the continuation of srv.call(item).await: lines 236-244
candidate_return(res) ==
    /\ pc = "offered"
    /\ results' = Append(results, result_kind(res))
    /\ returned' = IF res[1] = "Left" THEN res[2] ELSE returned
    /\ on_result(res)
    /\ UNCHANGED <<phase, servers, handshake_timeout, poll, delay, now, frame>>
    /\ UNCHANGED hsVars

candidate_step ==
    /\ pc = "offered"
    /\ \E r \in candidate_results(srv, item) : candidate_return(r)

read_step == \E r \in ReadResults : frame_read(r)

\* time passes for the Sleep created by call()
tick ==
    /\ pc # "idle"
    /\ now < MaxTime
    /\ now' = now + 1
    /\ UNCHANGED <<phase, servers, handshake_timeout, poll>>
    /\ UNCHANGED <<pc, item, idx, offers, results, pending, outcome, io, delay,
                   frame, done_at, returned>>
    /\ UNCHANGED hsVars

Next ==
    \/ \E t \in 0..MaxTimeout : set_handshake_timeout(t)
    \/ \E b \in Behaviours : variant(b)
    \/ \E f \in 0..MaxServers : new_service(f)
    \/ call
    \/ read_step
    \/ candidate_step
    \/ tick

Spec == Init /\ [][Next]_vars

\* ------------------------------------------------- readiness and shutdown
\* ready = r in place of ready &= r: the last answer wins
assign(ready, r) == r

\* ready &= r
and_assign(ready, r) == ready /\ r

\* a server that is not ready ends the loop at once
try_poll_short_circuit(ans) ==
    CASE ans = "err" -> <<"Return", "Ready(Err)">>
      [] ans = "pending" -> <<"Return", "Pending">>
      [] OTHER -> <<"Value", TRUE>>

\* srv.poll_ready(cx)? : an error leaves poll_ready at once with Poll::Ready(Err(e))
try_poll(ans) == IF ans = "err" THEN <<"Return", "Ready(Err)">> ELSE <<"Value", ans = "ready">>

\* the flag is not looked at
poll_result_always(ready, value) == value

\* if ready { Poll::Ready(..) } else { Poll::Pending }
poll_result(ready, value) == IF ready THEN value ELSE "Pending"

\* for srv in self.servers.iter() { ready &= srv.poll_ready(cx)?.is_ready(); }
RECURSIVE poll_ready_loop(_, _, _, _)
poll_ready_loop(answers, k, ready, polled) ==
    IF iter_next(k) = 0
    THEN [result |-> poll_result(ready, "Ready(Ok)"), polled |-> polled]
    ELSE LET n == iter_next(k)
             r == try_poll(answers[iter_nth(n)])
             seen == Append(polled, servers[iter_nth(n)].id)
         IN IF r[1] = "Return"
            THEN [result |-> r[2], polled |-> seen]
            ELSE poll_ready_loop(answers, n, and_assign(ready, r[2]), seen)

\* for srv in self.servers.iter() { ready &= srv.poll_shutdown(cx, is_error).is_ready() }
RECURSIVE poll_shutdown_loop(_, _, _, _)
poll_shutdown_loop(answers, k, ready, polled) ==
    IF iter_next(k) = 0
    THEN [result |-> poll_result(ready, "Ready"), polled |-> polled]
    ELSE LET n == iter_next(k)
         IN poll_shutdown_loop(answers, n,
                               and_assign(ready, answers[iter_nth(n)] = "ready"),
                               Append(polled, servers[iter_nth(n)].id))

poll_ready(answers) ==
    /\ phase = "serving"
    /\ LET r == poll_ready_loop(answers, 0, TRUE, <<>>) IN
       poll' = [op |-> "poll_ready", is_error |-> FALSE, answers |-> answers,
                polled |-> r.polled, result |-> r.result]
    /\ UNCHANGED <<phase, servers, handshake_timeout>>
    /\ UNCHANGED connVars
    /\ UNCHANGED hsVars

poll_shutdown(answers, is_error) ==
    /\ phase = "serving"
    /\ LET r == poll_shutdown_loop(answers, 0, TRUE, <<>>) IN
       poll' = [op |-> "poll_shutdown", is_error |-> is_error, answers |-> answers,
                polled |-> r.polled, result |-> r.result]
    /\ UNCHANGED <<phase, servers, handshake_timeout>>
    /\ UNCHANGED connVars
    /\ UNCHANGED hsVars

NextPoll ==
    \/ \E t \in 0..MaxTimeout : set_handshake_timeout(t)
    \/ \E b \in Behaviours : variant(b)
    \/ \E f \in 0..MaxServers : new_service(f)
    \/ \E a \in [1..Len(servers) -> PollAnswers] : poll_ready(a)
    \/ \E a \in [1..Len(servers) -> PollAnswers \ {"err"}], e \in BOOLEAN : poll_shutdown(a, e)

PollSpec == Init /\ [][NextPoll]_vars

\* time passes, and a server that can resolve its call() is eventually polled
FairSpec == Spec /\ WF_vars(tick) /\ WF_vars(candidate_step)

\* and state.next() eventually resolves
LiveSpec == FairSpec /\ WF_vars(read_step)

\* -------------------------------------------------- handshake negotiation
\* the first keep-alive whose half added to it no longer fits in a u16
FirstOverflow == (2 * U16Max) \div 3 + 1

\* requested keep-alive values: the low range, those around the first overflow, the largest
KeepAlives ==
    (0..MaxKeepAlive) \cup ((FirstOverflow - 2)..(FirstOverflow + 1)) \cup {U16Max - 1, U16Max}
IdleTimeouts == 0..MaxIdle
Sessions == {"st1", "st2"}
RejectOps == {"identifier_rejected", "bad_username_or_pwd", "not_authorized",
              "service_unavailable"}

\* Handshake::new(pkt, io, shared)
new(pkt, i, shared) == [io |-> i, pkt |-> pkt, shared |-> shared]

\* u16 >> n
shr(x, n) == x \div (2 ^ n)

\* u16::wrapping_add in place of checked_add
wrapping_add(a, b) == <<(a + b) % (U16Max + 1)>>

\* u16::checked_add: None on overflow
checked_add(a, b) == IF a + b > U16Max THEN <<>> ELSE <<a + b>>

\* Option::unwrap_or
unwrap_or(opt, default) == IF opt = <<>> THEN default ELSE opt[1]

\* the session is not stored
ack_none(h, st, session_present) ==
    [io |-> h.io,
     shared |-> h.shared,
     session_present |-> session_present,
     session |-> <<>>,
     keepalive |-> IF h.pkt.keep_alive # 0
                   THEN unwrap_or(checked_add(shr(h.pkt.keep_alive, 1), h.pkt.keep_alive), U16Max)
                   ELSE 30,
     return_code |-> "ConnectionAccepted"]

\* Handshake::ack
ack(h, st, session_present) ==
    [io |-> h.io,
     shared |-> h.shared,
     session_present |-> session_present,
     session |-> <<st>>,
     keepalive |-> IF h.pkt.keep_alive # 0
                   THEN unwrap_or(checked_add(shr(h.pkt.keep_alive, 1), h.pkt.keep_alive), U16Max)
                   ELSE 30,
     return_code |-> "ConnectionAccepted"]

\* Handshake::identifier_rejected
identifier_rejected(h) ==
    [io |-> h.io, shared |-> h.shared, session |-> <<>>, session_present |-> FALSE,
     keepalive |-> 30, return_code |-> "IdentifierRejected"]

\* Handshake::bad_username_or_pwd
bad_username_or_pwd(h) ==
    [io |-> h.io, shared |-> h.shared, session |-> <<>>, session_present |-> FALSE,
     keepalive |-> 30, return_code |-> "BadUserNameOrPassword"]

\* the body of bad_username_or_pwd pasted with its return code left as it was
not_authorized_pasted(h) ==
    [io |-> h.io, shared |-> h.shared, session |-> <<>>, session_present |-> FALSE,
     keepalive |-> 30, return_code |-> "BadUserNameOrPassword"]

\* Handshake::not_authorized
not_authorized(h) ==
    [io |-> h.io, shared |-> h.shared, session |-> <<>>, session_present |-> FALSE,
     keepalive |-> 30, return_code |-> "NotAuthorized"]

\* Handshake::service_unavailable
service_unavailable(h) ==
    [io |-> h.io, shared |-> h.shared, session |-> <<>>, session_present |-> FALSE,
     keepalive |-> 30, return_code |-> "ServiceUnavailable"]

\* the shorter of the two durations is kept
idle_timeout_min(a, timeout) ==
    [a EXCEPT !.keepalive = IF timeout < a.keepalive THEN timeout ELSE a.keepalive]

\* HandshakeAck::idle_timeout
idle_timeout(a, timeout) == [a EXCEPT !.keepalive = timeout]

selVars == <<phase, servers, handshake_timeout, poll>>

hs_new(keep_alive) ==
    /\ handshake = <<>>
    /\ handshake_ack = <<>>
    /\ handshake' = <<new([keep_alive |-> keep_alive], "io", "shared")>>
    /\ UNCHANGED <<handshake_ack, hs_hist>>
    /\ UNCHANGED <<selVars, connVars>>

\* a write through Handshake::packet_mut
hs_packet_mut(keep_alive) ==
    /\ handshake # <<>>
    /\ handshake' = <<[handshake[1] EXCEPT !.pkt.keep_alive = keep_alive]>>
    /\ UNCHANGED <<handshake_ack, hs_hist>>
    /\ UNCHANGED <<selVars, connVars>>

\* an ack constructor takes the Handshake by value and leaves the HandshakeAck
built(op, a) ==
    /\ handshake_ack' = <<a>>
    /\ handshake' = <<>>
    /\ hs_hist' = [op |-> op, keep_alive |-> handshake[1].pkt.keep_alive, overrides |-> <<>>]
    /\ UNCHANGED <<selVars, connVars>>

hs_ack(st, session_present) ==
    /\ handshake # <<>>
    /\ built("ack", ack(handshake[1], st, session_present))

hs_identifier_rejected ==
    /\ handshake # <<>>
    /\ built("identifier_rejected", identifier_rejected(handshake[1]))

hs_bad_username_or_pwd ==
    /\ handshake # <<>>
    /\ built("bad_username_or_pwd", bad_username_or_pwd(handshake[1]))

hs_not_authorized ==
    /\ handshake # <<>>
    /\ built("not_authorized", not_authorized(handshake[1]))

hs_service_unavailable ==
    /\ handshake # <<>>
    /\ built("service_unavailable", service_unavailable(handshake[1]))

hs_idle_timeout(timeout) ==
    /\ handshake_ack # <<>>
    /\ Len(hs_hist.overrides) < MaxOverrides
    /\ handshake_ack' = <<idle_timeout(handshake_ack[1], timeout)>>
    /\ hs_hist' = [hs_hist EXCEPT !.overrides = Append(@, timeout)]
    /\ UNCHANGED handshake
    /\ UNCHANGED <<selVars, connVars>>

NextHandshake ==
    \/ \E k \in KeepAlives : hs_new(k)
    \/ \E k \in KeepAlives : hs_packet_mut(k)
    \/ \E st \in Sessions, sp \in BOOLEAN : hs_ack(st, sp)
    \/ hs_identifier_rejected
    \/ hs_bad_username_or_pwd
    \/ hs_not_authorized
    \/ hs_service_unavailable
    \/ \E t \in IdleTimeouts : hs_idle_timeout(t)

HandshakeSpec == Init /\ [][NextHandshake]_vars

\* ================================================================ claims
Declined(k) == k <= Len(results) /\ results[k] = "decline"

\* C1: servers are offered the connection strictly in registration order and
\* one at a time: the k-th offer goes to the k-th registered server, it is made
\* only after every earlier offer came back as a decline, and at most one
\* offer (the latest) is in flight.
C1_OffersInOrderOneAtATime ==
    /\ Len(offers) <= Len(servers)
    /\ \A k \in 1..Len(offers) : offers[k] = servers[k].id
    /\ \A k \in 2..Len(offers) : Declined(k - 1)
    /\ Cardinality(pending) <= 1
    /\ pending # {} => (pc = "offered" /\ pending = {offers[Len(offers)]}
                        /\ Len(results) = Len(offers) - 1)
    /\ pending = {} => Len(results) = Len(offers)

C1_Witness ==
    /\ Len(offers) = 3
    /\ pending = {servers[3].id}
    /\ results = <<"decline", "decline">>

\* C2: as soon as a server claims the connection the task ends with Ok and no
\* server registered after it is consulted, even one that would accept.
C2_ClaimEndsSelection ==
    \A k \in 1..Len(results) :
        results[k] = "claim" =>
            /\ Len(offers) = k
            /\ Len(results) = k
            /\ outcome = Ok
            /\ pc = "done"
            /\ pending = {}

C2_Witness ==
    /\ Len(servers) = 3
    /\ servers[1].behav = "claim"
    /\ servers[2].behav = "decline"
    /\ servers[3].behav = "claim"
    /\ results = <<"claim">>
    /\ offers = <<servers[1].id>>
    /\ outcome = Ok

\* C3: a first frame that is not CONNECT ends the task at once with the
\* protocol error naming the frame's type, and no server is consulted.
C3_NonConnectIsProtocolError ==
    (frame[1] = "Some" /\ frame[2] # "Connect") =>
        /\ pc = "done"
        /\ outcome = Err(Unexpected(frame[2]))
        /\ offers = <<>>
        /\ results = <<>>
        /\ pending = {}

C3_Witness ==
    /\ frame = <<"Some", "Publish">>
    /\ Len(servers) > 0
    /\ outcome = Err(Unexpected("Publish"))
    /\ offers = <<>>

\* C4 (as claimed): once the deadline has passed while the first frame is
\* awaited, the only way out of the wait is the HandshakeTimeout failure.
C4_TimeoutAbortsRead ==
    [][(pc = "read" /\ Expired(delay)) =>
           (pc' = "read" \/ outcome' = Err(HandshakeTimeout))]_vars

AllHang == \A i \in 1..Len(servers) : servers[i].behav = "hang"

C6_ClaimedIsFinal ==
    /\ []((\E k \in 1..Len(results) : results[k] = "claim") =>
              (outcome = Ok /\ io = "claimed"))
    /\ [][outcome = Ok => (outcome' = Ok /\ io' = "claimed" /\ pc' = "done")]_vars

C6_Witness ==
    /\ outcome = Ok
    /\ io = "claimed"
    /\ delay # <<>>
    /\ done_at < delay[1]
    /\ now >= delay[1]

AllDeclined ==
    /\ Len(results) = Len(servers)
    /\ \A k \in 1..Len(results) : results[k] = "decline"

\* C7: when the first frame is CONNECT and every registered server has
\* declined (none registered included), the task ends with the
\* "Cannot handle CONNECT packet" error, each server consulted exactly once.
C7_ExhaustedIsServerError ==
    (frame = <<"Some", "Connect">> /\ AllDeclined) =>
        /\ pc = "done"
        /\ outcome = Err(ServerError)
        /\ offers = ServerIds
        /\ io = "closed"

C7_Witness ==
    /\ Len(servers) = 3
    /\ frame = <<"Some", "Connect">>
    /\ AllDeclined
    /\ outcome = Err(ServerError)

\* C8 (as claimed): with no server registered every finished connection
\* failed with the "Cannot handle CONNECT packet" error.
C8_ZeroServersAlwaysServerError ==
    (phase = "serving" /\ Len(servers) = 0 /\ pc = "done") => outcome = Err(ServerError)

\* C8 (amended): with no server registered no connection succeeds, and a
\* finished connection failed with the "Cannot handle CONNECT packet" error
\* exactly when its first frame was CONNECT; otherwise with the error of the
\* read or of the frame's type.
C8_ZeroServersConnectIsServerError ==
    (phase = "serving" /\ Len(servers) = 0 /\ pc = "done") =>
        /\ outcome.kind = "Err"
        /\ offers = <<>>
        /\ io = "closed"
        /\ (frame = <<"Some", "Connect">>) <=> (outcome = Err(ServerError))

C8_Witness ==
    /\ phase = "serving"
    /\ Len(servers) = 0
    /\ frame = <<"Some", "Connect">>
    /\ outcome = Err(ServerError)

\* the answers of the servers that were polled, in the order polled
Reported == [k \in 1..Len(poll.polled) |-> poll.answers[poll.polled[k]]]
Reports(a) == \E k \in 1..Len(Reported) : Reported[k] = a

\* rank of the first server answering a, Len(answers) + 1 if there is none
FirstAnswer(answers, a) ==
    LET hits == {k \in 1..Len(answers) : answers[k] = a}
    IN IF hits = {} THEN Len(answers) + 1 ELSE CHOOSE k \in hits : \A j \in hits : k <= j

\* C9 (as claimed): if any polled server reports not-ready, poll_ready
\* returns Pending, whatever the others report; it returns Ready(Ok) only
\* when every server reported ready.
C9_AnyPendingIsPending ==
    poll.op = "poll_ready" =>
        /\ Reports("pending") => poll.result = "Pending"
        /\ poll.result = "Ready(Ok)" =>
               (Len(Reported) = Len(servers) /\ \A k \in 1..Len(Reported) : Reported[k] = "ready")

\* C9 (amended): if any server reports not-ready, poll_ready does not return
\* Ready(Ok), whatever the server's position: it returns Pending when no
\* server reports an error and Ready(Err) when one does; it returns
\* Ready(Ok) exactly when every server was polled and reported ready.
C9_AnyPendingIsNotReady ==
    poll.op = "poll_ready" =>
        /\ (Reports("pending") /\ ~Reports("err")) => poll.result = "Pending"
        /\ Reports("err") <=> poll.result = "Ready(Err)"
        /\ poll.result = "Ready(Ok)" <=>
               (Len(Reported) = Len(servers) /\ \A k \in 1..Len(Reported) : Reported[k] = "ready")

C9_Witness ==
    /\ poll.op = "poll_ready"
    /\ Len(servers) = 3
    /\ poll.answers = <<"pending", "ready", "ready">>
    /\ poll.result = "Pending"

\* C10 (as claimed): every call of poll_ready and of poll_shutdown polls every
\* registered server exactly once, whatever the servers answer.
C10_PollsEveryServer ==
    poll.op # "none" => poll.polled = ServerIds

\* C10 (amended): poll_shutdown polls every registered server exactly once,
\* in order, whatever they answer; poll_ready polls the servers once each in
\* order, whatever ready or pending answers come before, up to and including
\* the first server that answers with an error, and none after it.
C10_PollsEveryServerUpToError ==
    /\ poll.op = "poll_shutdown" => poll.polled = ServerIds
    /\ poll.op = "poll_ready" =>
           poll.polled = SubSeq(ServerIds, 1,
               IF FirstAnswer(poll.answers, "err") <= Len(servers)
               THEN FirstAnswer(poll.answers, "err") ELSE Len(servers))

C10_Witness ==
    /\ poll.op = "poll_ready"
    /\ Len(servers) = 3
    /\ poll.answers = <<"pending", "ready", "pending">>
    /\ poll.polled = ServerIds

\* C14: the transport and the shared state of a connection are held by
\* exactly one party at any time: the acceptor before call(), the selector's
\* task while the first frame is read, the one server whose call() is in
\* flight while it is offered, the claiming server after Ok; after any
\* failure they are dropped and the transport is closed.
C14_SingleOwner ==
    /\ pc = "idle" => io = "acceptor"
    /\ pc = "read" => (io = "selector" /\ pending = {})
    /\ pc = "offered" => (io = "candidate" /\ pending = {srv.id})
    /\ (pc = "done" /\ outcome = Ok) =>
           (io = "claimed" /\ pending = {} /\ results[Len(results)] = "claim")
    /\ (pc = "done" /\ outcome.kind = "Err") => (io = "closed" /\ pending = {})
    /\ io = "claimed" => outcome = Ok
    /\ io = "closed" => (pc = "done" /\ outcome.kind = "Err")

C14_Witness ==
    /\ pc = "done"
    /\ io = "closed"
    /\ outcome = Err(HandshakeTimeout)
    /\ results = <<"decline", "error">>

ReadFailed == frame[1] \in {"Err", "None"}

\* C15: when reading the first frame fails no server is consulted: a decode
\* or transport error ends the task with that error, a clean close before any
\* frame ends it with Disconnected.
C15_ReadFailureEndsTask ==
    ReadFailed =>
        /\ pc = "done"
        /\ offers = <<>>
        /\ results = <<>>
        /\ io = "closed"
        /\ frame[1] = "Err" => outcome = Err(MqttErrorFrom(frame[2]))
        /\ frame[1] = "None" => outcome = Err(Disconnected)

C15_Witness ==
    /\ frame = <<"None">>
    /\ Len(servers) > 0
    /\ outcome = Err(Disconnected)
    /\ offers = <<>>

\* C16: the item a server is called with is the item the server before it
\* returned with its decline, request mutations included, and the first
\* server gets the request as parsed; the deadline in the item is the Sleep
\* that call() created, through the whole selection.
C16_ItemPassedUnchanged ==
    /\ (pc = "offered" /\ idx = 1) => item = [connect |-> 0, delay |-> delay]
    /\ (pc = "offered" /\ idx > 1) => item = returned
    /\ pc = "offered" => item.delay = make_delay(handshake_timeout, 0)
    /\ returned # NoItem => returned.delay = delay

C16_Witness ==
    /\ pc = "offered"
    /\ idx = 3
    /\ item.connect = servers[2].id
    /\ item.delay = <<handshake_timeout>>
    /\ handshake_timeout > 0
    /\ now > 0

\* C19: when a server's call() returns an error the selection stops there:
\* the task ends with that error, no later server is called, and the outcome
\* is neither Ok nor the "Cannot handle CONNECT packet" error.
C19_ServerErrorEndsTask ==
    \A k \in 1..Len(results) :
        results[k] = "error" =>
            /\ Len(results) = k
            /\ Len(offers) = k
            /\ pc = "done"
            /\ pending = {}
            /\ outcome \in {Err(ServiceError), Err(HandshakeTimeout)}
            /\ outcome = Err(ServiceError) => servers[k].behav = "error"
            /\ outcome = Err(HandshakeTimeout) => (delay # <<>> /\ done_at >= delay[1])

C19_Witness ==
    /\ Len(servers) = 3
    /\ servers[3].behav = "claim"
    /\ results = <<"decline", "error">>
    /\ outcome = Err(ServiceError)

NoHang == \A i \in 1..Len(servers) : servers[i].behav # "hang"

\* C20: a connection task has one outcome and it is final: the task is done
\* exactly when its outcome is Ok or an error, a done task changes nothing,
\* no server is called twice, the loop position and the list of offers only
\* grow, at most Len(servers) offers are made, and when the read and every
\* server's call return the task reaches its outcome.
C20_OneFinalOutcome ==
    /\ [](/\ pc = "done" <=> outcome.kind \in {"Ok", "Err"}
          /\ pc # "done" => outcome = NoOutcome
          /\ Len(offers) <= Len(servers)
          /\ \A i, j \in 1..Len(offers) : offers[i] = offers[j] => i = j)
    /\ [][pc = "done" =>
              (pc' = "done" /\ outcome' = outcome /\ offers' = offers
               /\ results' = results /\ io' = io)]_vars
    /\ [][/\ idx' >= idx
          /\ Len(offers') >= Len(offers)
          /\ SubSeq(offers', 1, Len(offers)) = offers]_vars
    /\ (pc = "read" /\ NoHang) ~> (pc = "done")

C20_Witness ==
    /\ Len(servers) = 3
    /\ pc = "done"
    /\ Len(offers) = 3
    /\ outcome = Ok
    /\ now = MaxTime

\* C17: poll_shutdown returns Ready exactly when every registered server
\* was polled and answered Ready in that call (at once with no server), and
\* Pending when at least one server is still pending.
C17_ShutdownWhenAllShutDown ==
    poll.op = "poll_shutdown" =>
        /\ poll.result \in {"Ready", "Pending"}
        /\ poll.result = "Ready" <=>
               (Len(Reported) = Len(servers) /\ \A k \in 1..Len(Reported) : Reported[k] = "ready")
        /\ Reports("pending") => poll.result = "Pending"
        /\ Len(servers) = 0 => poll.result = "Ready"

C17_Witness ==
    /\ poll.op = "poll_shutdown"
    /\ Len(servers) = 3
    /\ poll.answers = <<"ready", "pending", "ready">>
    /\ poll.polled = ServerIds
    /\ poll.result = "Pending"

Built == handshake_ack # <<>>
TheAck == handshake_ack[1]
Min(a, b) == IF a < b THEN a ELSE b

\* C11: for a requested keep-alive k of 1..65535 Handshake::ack negotiates
\* min(65535, k + floor(k/2)), never a value wrapped around 16 bits (60
\* gives 90, 65535 gives 65535); for k = 0 it negotiates 30.
C11_KeepAliveNegotiation ==
    (Built /\ hs_hist.op = "ack" /\ hs_hist.overrides = <<>>) =>
        LET k == hs_hist.keep_alive IN
        /\ k = 0 => TheAck.keepalive = 30
        /\ k \in 1..65535 => TheAck.keepalive = Min(65535, k + ((k - (k % 2)) \div 2))
        /\ k # 0 => (TheAck.keepalive >= k /\ TheAck.keepalive <= 65535)
        /\ k = 60 => TheAck.keepalive = 90
        /\ k = 65535 => TheAck.keepalive = 65535

C11_Witness ==
    /\ Built
    /\ hs_hist = [op |-> "ack", keep_alive |-> FirstOverflow, overrides |-> <<>>]
    /\ TheAck.keepalive = 65535

RejectCode(op) ==
    CASE op = "identifier_rejected" -> "IdentifierRejected"
      [] op = "bad_username_or_pwd" -> "BadUserNameOrPassword"
      [] op = "not_authorized" -> "NotAuthorized"
      [] op = "service_unavailable" -> "ServiceUnavailable"

\* C12: each of the four rejection constructors yields an acknowledgement
\* with no session, session-present false, keep-alive 30 and its own return
\* code, whatever the request held when it was consumed.
C12_RejectionsCarryNoSession ==
    (Built /\ hs_hist.op \in RejectOps) =>
        /\ TheAck.session = <<>>
        /\ TheAck.session_present = FALSE
        /\ TheAck.return_code = RejectCode(hs_hist.op)
        /\ hs_hist.overrides = <<>> => TheAck.keepalive = 30

C12_Witness ==
    /\ Built
    /\ hs_hist = [op |-> "not_authorized", keep_alive |-> 65535, overrides |-> <<>>]
    /\ TheAck.return_code = "NotAuthorized"
    /\ TheAck.keepalive = 30

\* C13: idle_timeout on a built acknowledgement, accepted or rejected, sets
\* the keep-alive to the given duration and leaves return code, session,
\* session-present, transport and shared state as they were; after several
\* calls the keep-alive is that of the last one.
C13_IdleTimeoutSetsOnlyKeepAlive ==
    /\ [][hs_hist'.overrides # hs_hist.overrides =>
              /\ Built /\ handshake_ack' # <<>>
              /\ handshake_ack'[1].return_code = TheAck.return_code
              /\ handshake_ack'[1].session = TheAck.session
              /\ handshake_ack'[1].session_present = TheAck.session_present
              /\ handshake_ack'[1].io = TheAck.io
              /\ handshake_ack'[1].shared = TheAck.shared
              /\ handshake' = handshake]_vars
    /\ [](hs_hist.overrides # <<>> =>
              TheAck.keepalive = hs_hist.overrides[Len(hs_hist.overrides)])

C13_Witness ==
    /\ Built
    /\ hs_hist = [op |-> "ack", keep_alive |-> 60, overrides |-> <<1, 2>>]
    /\ TheAck.keepalive = 2
    /\ TheAck.return_code = "ConnectionAccepted"
    /\ TheAck.session_present = TRUE

\* C18: in every acknowledgement built by one constructor and any number of
\* idle_timeout calls the session is present exactly when the return code is
\* ConnectionAccepted, and session-present is true only then.
C18_SessionIffAccepted ==
    Built =>
        /\ TheAck.session # <<>> <=> TheAck.return_code = "ConnectionAccepted"
        /\ TheAck.session_present => TheAck.return_code = "ConnectionAccepted"
        /\ TheAck.return_code = "ConnectionAccepted" <=> hs_hist.op = "ack"

C18_Witness ==
    /\ Built
    /\ hs_hist.op = "ack"
    /\ hs_hist.overrides = <<0, 0>>
    /\ TheAck.session = <<"st2">>
    /\ TheAck.session_present = TRUE

====
